---- MODULE Spec2Model ----
(***************************************************************************)
(* Model of the ohm grammar loader (src/main.js): the process-wide        *)
(* namespace registry, the semantic actions that drive a Builder from a    *)
(* parsed grammar declaration, and makeGrammar / makeGrammars.             *)
(* The operations of Builder (Builder.js) and Namespace (Namespace.js)     *)
(* that main.js calls are modelled from the design document.               *)
(***************************************************************************)
EXTENDS Integers, Sequences, FiniteSets, TLC

\* ---- bounds ----
MaxHeap == 3        \* Grammar objects built over one run
MaxSize == 5        \* Grammar objects plus rule alternatives over one run

\* ---- input alphabets ----
NsNames == {"n1", "n2"}
GNames == {"G", "H"}
\* the names used by the sources that declare rules
RuleNsNames == {"n1"}
RuleGNames == {"G"}
RuleNames == {"r", "s"}
Prims == {"a", "b"}

\* ---- expressions (rule bodies) ----
Prim(v) == <<"Prim", v>>
Alt(x, y) == <<"Alt", x, y>>
NoRule == <<>>
Bodies == {Prim(v) : v \in Prims}
\* the labels and values of the terms of rule bodies evaluated term by term
InlineLabels == {"x", "y"}
InlinePrims == {"a"}

\* order in which the alternatives of a body are tried (ordered choice)
RECURSIVE AltOrder(_)
AltOrder(e) == IF e[1] = "Alt" THEN AltOrder(e[2]) \o AltOrder(e[3]) ELSE <<e>>

VARIABLES
  namespaces,    \* main.js:241  name -> Namespace instance (0 = undefined)
  nsObjs,        \* the Namespace instances, by instance number
  heap,          \* the Grammar objects built so far, by object number
  pc,            \* position of the loader
  whatItIs,      \* "Grammar" or "Grammars" (compileAndLoad's start rule)
  optNamespace,  \* Namespace instance handed to makeGrammar(s) (0 = undefined)
  builder,       \* the action dictionary's builder variable
  batch,         \* Grammar objects built by the running call, in order
  error,         \* exception on its way out of the running call, or "none"
  last,          \* the operation that ran last: arguments, value, outcome
  prev,          \* the semantic action of the running call that ran before it
  terms          \* values of the Term actions of the rule body being evaluated

vars == <<namespaces, nsObjs, heap, pc, whatItIs, optNamespace, builder,
          batch, error, last, prev, terms>>

EmptyRuleSet == [r \in RuleNames |-> NoRule]
EmptyGrammars == [g \in GNames |-> 0]
\* id tells the Builder objects of one call apart: the k-th one made has id k
NoBuilder == [made |-> FALSE, id |-> 0, name |-> "", superGrammar |-> 0,
              ruleSet |-> EmptyRuleSet, currentRuleName |-> ""]
Op(o, ns, n, b, v) ==
  [op |-> o, ns |-> ns, n |-> n, b |-> b, val |-> v, gs |-> <<>>]

NoOp == Op("init", "", "", NoRule, 0)

\* the names of the semantic actions, by kind
SuperOps ==
  {"SuperGrammar-absent", "SuperGrammar-qualified", "SuperGrammar-unqualified"}
RuleOps == {"Rule-define", "Rule-override", "Rule-extend"}

Init ==
  /\ namespaces = [n \in NsNames |-> 0]
  /\ nsObjs = <<>>
  /\ heap = <<>>
  /\ pc = "idle"
  /\ whatItIs = "Grammar"
  /\ optNamespace = 0
  /\ builder = NoBuilder
  /\ batch = <<>>
  /\ error = "none"
  /\ last = NoOp
  /\ prev = NoOp
  /\ terms = <<>>

\* ---- Namespace (Namespace.js) ----
NewNamespace(name) == [name |-> name, grammars |-> EmptyGrammars]

\* getGrammar(name): the registered Grammar, 0 when there is none
\* (the caller raises UnknownGrammarError on 0)
Namespace_getGrammar(objs, nsId, n) == objs[nsId].grammars[n]

\* install(name, grammar): registers grammar under name
Namespace_install(objs, nsId, n, g) == [objs EXCEPT ![nsId].grammars[n] = g]

\* ---- Builder (Builder.js) ----
NewBuilder == [made |-> TRUE, id |-> 0, name |-> "", superGrammar |-> 0,
               ruleSet |-> EmptyRuleSet, currentRuleName |-> ""]

Builder_setName(bld, n) == [bld EXCEPT !.name = n]

Builder_setSuperGrammar(bld, g) == [bld EXCEPT !.superGrammar = g]

\* rule lookup along the super-grammar chain starting at Grammar g
RECURSIVE ChainLookup(_, _)
ChainLookup(g, n) ==
  IF g = 0 THEN NoRule
  ELSE IF heap[g].rules[n] # NoRule THEN heap[g].rules[n]
  ELSE ChainLookup(heap[g].superGrammar, n)

\* local rule set first, then each ancestor in order
Builder_lookup(bld, n) ==
  IF bld.ruleSet[n] # NoRule THEN bld.ruleSet[n]
  ELSE ChainLookup(bld.superGrammar, n)

\* each operation yields the exception it raises ("none") and the builder after
Builder_define(bld, n, b) ==
  IF bld.ruleSet[n] # NoRule
  THEN [err |-> "DuplicateRuleError", bld |-> bld]
  ELSE [err |-> "none", bld |-> [bld EXCEPT !.ruleSet[n] = b]]

Builder_override(bld, n, b) ==
  IF Builder_lookup(bld, n) = NoRule
  THEN [err |-> "UndefinedRuleError", bld |-> bld]
  ELSE [err |-> "none", bld |-> [bld EXCEPT !.ruleSet[n] = b]]

Builder_extend(bld, n, b) ==
  IF Builder_lookup(bld, n) = NoRule
  THEN [err |-> "UndefinedRuleError", bld |-> bld]
  ELSE [err |-> "none",
        bld |-> [bld EXCEPT !.ruleSet[n] = Alt(Builder_lookup(bld, n), b)]]

\* inline(name, body): the Inline expression for body under name
Builder_inline(name, x) == <<"Inline", name, x>>

\* build(namespace): the Grammar value; the namespace is left as it is
Builder_build(bld, nsId) ==
  [name |-> bld.name, superGrammar |-> bld.superGrammar, rules |-> bld.ruleSet]

\* resolving rule n through a built Grammar
Resolve(g, n) == ChainLookup(g, n)

\* ---- size of a run: what the bound MaxSize limits ----
RuleSetSize(rs) ==
  LET n(r) == IF rs[r] = NoRule THEN 0 ELSE Len(AltOrder(rs[r])) IN
  n("r") + n("s")

RECURSIVE HeapSize(_)
HeapSize(k) ==
  IF k = 0 THEN 0 ELSE 1 + RuleSetSize(heap[k].rules) + HeapSize(k - 1)

Size ==
  HeapSize(Len(heap))
  + (IF pc \in {"SuperGrammar", "Rule", "Body"}
     THEN 1 + RuleSetSize(builder.ruleSet) + Len(terms)
     ELSE 0)

\* ---- exports.namespace (main.js:241-247) ----
\* the registry and the instances after namespace(name)
NamespaceAlwaysNew(name) ==
  [reg |-> [namespaces EXCEPT ![name] = Len(nsObjs) + 1],
   objs |-> Append(nsObjs, NewNamespace(name)),
   val |-> Len(nsObjs) + 1]

NamespaceGetOrCreate(name) ==
  IF namespaces[name] = 0
  THEN [reg |-> [namespaces EXCEPT ![name] = Len(nsObjs) + 1],
        objs |-> Append(nsObjs, NewNamespace(name)),
        val |-> Len(nsObjs) + 1]
  ELSE [reg |-> namespaces, objs |-> nsObjs, val |-> namespaces[name]]

\* cap on the number of Namespace instances ever created
NsRoom == Len(nsObjs) <= Cardinality(NsNames)

\* the host calls ohm.namespace(name)
NamespaceCall(name) ==
  /\ pc = "idle"
  /\ NsRoom
  /\ LET r == NamespaceGetOrCreate(name) IN
       /\ namespaces' = r.reg
       /\ nsObjs' = r.objs
       /\ last' = Op("namespace", name, "", NoRule, r.val)
  /\ UNCHANGED <<terms, heap, pc, whatItIs, optNamespace, builder, batch,
                 error, prev>>

\* the host registers a Grammar it has just been returned, under the
\* Grammar's name, in a Namespace it holds
Install(nsId, g) ==
  /\ pc = "idle"
  /\ last.op = "return"
  /\ \E i \in 1..Len(last.gs) : last.gs[i] = g
  /\ nsObjs' = Namespace_install(nsObjs, nsId, heap[g].name, g)
  /\ UNCHANGED <<terms, namespaces, heap, pc, whatItIs, optNamespace, builder,
                 batch, error, last, prev>>

\* ---- compileAndLoad (main.js:217-225) ----
\* the thunk is run with a new action dictionary, whose builder is unset
compileAndLoad(what, nsId) ==
  /\ pc = "idle"
  /\ pc' = "Grammar"
  /\ whatItIs' = what
  /\ optNamespace' = nsId
  /\ builder' = NoBuilder
  /\ batch' = <<>>
  /\ error' = "none"
  /\ prev' = NoOp
  /\ UNCHANGED <<terms, namespaces, nsObjs, heap>>

\* (variant: the exception is caught and the evaluation goes on)
ThrowSwallowed(e) ==
  /\ error' = e
  /\ UNCHANGED pc

\* an exception raised by a semantic action is caught nowhere in
\* compileAndLoad: the evaluation stops there
Throw(e) ==
  /\ pc' = "throw"
  /\ error' = e

\* (variant: the mismatch is not reported and the evaluation starts)
compileAndLoadInvalidIgnored(what, nsId) ==
  /\ compileAndLoad(what, nsId)
  /\ last' = Op("invalid input", "", what, NoRule, nsId)

\* compileAndLoad on a source that matchContents rejects (main.js:218,
\* 221-224): no action dictionary is made, browser.error raises
compileAndLoadInvalid(what, nsId) ==
  /\ pc = "idle"
  /\ pc' = "throw"
  /\ error' = "MalformedSourceError"
  /\ whatItIs' = what
  /\ optNamespace' = nsId
  /\ builder' = NoBuilder
  /\ batch' = <<>>
  /\ prev' = NoOp
  /\ last' = Op("invalid input", "", what, NoRule, nsId)
  /\ UNCHANGED <<terms, namespaces, nsObjs, heap>>

\* the call is over: its action dictionary and arguments are gone
CallEnds ==
  /\ pc' = "idle"
  /\ whatItIs' = "Grammar"
  /\ optNamespace' = 0
  /\ builder' = NoBuilder
  /\ batch' = <<>>
  /\ prev' = NoOp
  /\ terms' = <<>>

\* (variant: the Grammars the failed call had built are discarded)
UnwindRollsBack ==
  /\ pc = "throw"
  /\ CallEnds
  /\ error' = "none"
  /\ last' = Op("throw", "", error, NoRule, 0)
  /\ heap' = SubSeq(heap, 1, Len(heap) - Len(batch))
  /\ UNCHANGED <<namespaces, nsObjs>>

\* the exception reaches the caller of makeGrammar(s): no value is returned
Unwind ==
  /\ pc = "throw"
  /\ CallEnds
  /\ error' = "none"
  /\ last' = Op("throw", "", error, NoRule, 0)
  /\ UNCHANGED <<namespaces, nsObjs, heap>>

\* main.js:227-229
makeGrammar(nsId) ==
  /\ compileAndLoad("Grammar", nsId)
  /\ last' = Op("makeGrammar", "", "", NoRule, nsId)

\* main.js:231-233
makeGrammars(nsId) ==
  /\ compileAndLoad("Grammars", nsId)
  /\ last' = Op("makeGrammars", "", "", NoRule, nsId)

\* ---- semantic actions (main.js:123-215) ----
\* (variant: the Builder of the previous declaration is kept)
GrammarBeginReusesBuilder(n) ==
  /\ pc = "Grammar"
  /\ whatItIs = "Grammar" => Len(batch) = 0
  /\ Len(heap) < MaxHeap
  /\ Size < MaxSize
  /\ builder' = Builder_setName(
                  IF builder.made THEN builder
                  ELSE [NewBuilder EXCEPT !.id = 1], n)
  /\ pc' = "SuperGrammar"
  /\ last' = Op("Grammar", "", n, NoRule, 0)
  /\ prev' = last
  /\ UNCHANGED <<terms, namespaces, nsObjs, heap, whatItIs, optNamespace,
                 batch, error>>

\* Grammar, first half (main.js:207-208): a new Builder, then setName
GrammarBegin(n) ==
  /\ pc = "Grammar"
  /\ whatItIs = "Grammar" => Len(batch) = 0
  /\ Len(heap) < MaxHeap
  /\ Size < MaxSize
  /\ builder' = Builder_setName([NewBuilder EXCEPT !.id = builder.id + 1], n)
  /\ pc' = "SuperGrammar"
  /\ last' = Op("Grammar", "", n, NoRule, 0)
  /\ prev' = last
  /\ UNCHANGED <<terms, namespaces, nsObjs, heap, whatItIs, optNamespace,
                 batch, error>>

\* env.s of a declaration without a super-grammar: nothing is called
SuperGrammarAbsent ==
  /\ pc = "SuperGrammar"
  /\ pc' = "Rule"
  /\ last' = Op("SuperGrammar-absent", "", "", NoRule, 0)
  /\ prev' = last
  /\ UNCHANGED <<terms, namespaces, nsObjs, heap, whatItIs, optNamespace, builder, batch, error>>

\* (variant: a namespace that is not in the registry is looked up only)
SuperGrammarQualifiedLooksUpOnly(ns, n) ==
  /\ pc = "SuperGrammar"
  /\ NsRoom
  /\ LET g == IF namespaces[ns] = 0 THEN 0
              ELSE Namespace_getGrammar(nsObjs, namespaces[ns], n) IN
       /\ UNCHANGED <<namespaces, nsObjs>>
       /\ last' = [Op("SuperGrammar-qualified", ns, n, NoRule, g)
                     EXCEPT !.gs = <<Len(nsObjs)>>]
       /\ prev' = last
       /\ IF g = 0
          THEN /\ Throw("UnknownGrammarError")
               /\ UNCHANGED builder
          ELSE /\ builder' = Builder_setSuperGrammar(builder, g)
               /\ pc' = "Rule"
               /\ UNCHANGED <<error>>
  /\ UNCHANGED <<terms, heap, whatItIs, optNamespace, batch>>

\* SuperGrammar over SuperGrammar-qualified (main.js:202-203); the record of
\* the step keeps the number of Namespace instances there were before it
SuperGrammarQualified(ns, n) ==
  /\ pc = "SuperGrammar"
  /\ NsRoom
  /\ LET r == NamespaceGetOrCreate(ns)
         g == Namespace_getGrammar(r.objs, r.val, n) IN
       /\ namespaces' = r.reg
       /\ nsObjs' = r.objs
       /\ last' = [Op("SuperGrammar-qualified", ns, n, NoRule, g)
                     EXCEPT !.gs = <<Len(nsObjs)>>]
       /\ prev' = last
       /\ IF g = 0
          THEN /\ Throw("UnknownGrammarError")
               /\ UNCHANGED builder
          ELSE /\ builder' = Builder_setSuperGrammar(builder, g)
               /\ pc' = "Rule"
               /\ UNCHANGED <<error>>
  /\ UNCHANGED <<terms, heap, whatItIs, optNamespace, batch>>

\* (variant: after setSuperGrammar the super-grammar is evaluated again)
SuperGrammarUnqualifiedAgain(n) ==
  /\ pc = "SuperGrammar"
  /\ LET g == IF optNamespace = 0 THEN 0
              ELSE Namespace_getGrammar(nsObjs, optNamespace, n) IN
       /\ last' = Op("SuperGrammar-unqualified", "", n, NoRule, g)
       /\ prev' = last
       /\ IF optNamespace = 0
          THEN /\ Throw("TypeError")
               /\ UNCHANGED builder
          ELSE IF g = 0
          THEN /\ Throw("UnknownGrammarError")
               /\ UNCHANGED builder
          ELSE /\ builder' = Builder_setSuperGrammar(builder, g)
               /\ UNCHANGED <<pc, error>>
  /\ UNCHANGED <<terms, namespaces, nsObjs, heap, whatItIs, optNamespace,
                 batch>>

\* SuperGrammar over SuperGrammar-unqualified (main.js:202, 204)
SuperGrammarUnqualified(n) ==
  /\ pc = "SuperGrammar"
  /\ LET g == IF optNamespace = 0 THEN 0
              ELSE Namespace_getGrammar(nsObjs, optNamespace, n) IN
       /\ last' = Op("SuperGrammar-unqualified", "", n, NoRule, g)
       /\ prev' = last
       /\ IF optNamespace = 0
          THEN /\ Throw("TypeError")
               /\ UNCHANGED builder
          ELSE IF g = 0
          THEN /\ Throw("UnknownGrammarError")
               /\ UNCHANGED builder
          ELSE /\ builder' = Builder_setSuperGrammar(builder, g)
               /\ pc' = "Rule"
               /\ UNCHANGED <<error>>
  /\ UNCHANGED <<terms, namespaces, nsObjs, heap, whatItIs, optNamespace,
                 batch>>

\* (variant: the Builder's rule set is the super-grammar's own rule set)
RuleOutcomeSharesRules(r) ==
  /\ builder' = r.bld
  /\ IF r.err = "none" THEN UNCHANGED <<pc, error>> ELSE Throw(r.err)
  /\ heap' = IF r.err = "none" /\ builder.superGrammar # 0
             THEN [heap EXCEPT ![builder.superGrammar].rules = r.bld.ruleSet]
             ELSE heap
  /\ UNCHANGED <<terms, namespaces, nsObjs, whatItIs, optNamespace, batch>>

\* what a rule declaration does with the Builder's answer: the Builder is
\* the only object written, an exception leaves the action
RuleOutcome(r) ==
  /\ builder' = r.bld
  /\ IF r.err = "none" THEN UNCHANGED <<pc, error>> ELSE Throw(r.err)
  /\ UNCHANGED <<terms, namespaces, nsObjs, heap, whatItIs, optNamespace, batch>>

\* (variants of Rule-define: it calls override; it works on a new Builder)
CallDefineAsOverride(bld, n, b) ==
  Builder_override([bld EXCEPT !.currentRuleName = n], n, b)

CallDefineOnNewBuilder(bld, n, b) ==
  Builder_define([bld EXCEPT !.currentRuleName = n, !.ruleSet = EmptyRuleSet],
                 n, b)

\* Rule-define (main.js:189-192)
CallDefine(bld, n, b) ==
  Builder_define([bld EXCEPT !.currentRuleName = n], n, b)

\* (variants of Rule-override: it calls define; it calls extend)
CallOverrideAsDefine(bld, n, b) ==
  Builder_define([bld EXCEPT !.currentRuleName = n], n, b)

CallOverrideAsExtend(bld, n, b) ==
  Builder_extend([bld EXCEPT !.currentRuleName = n], n, b)

\* Rule-override (main.js:193-196)
CallOverride(bld, n, b) ==
  Builder_override([bld EXCEPT !.currentRuleName = n], n, b)

\* (variant of Rule-extend: it calls override)
CallExtendAsOverride(bld, n, b) ==
  Builder_override([bld EXCEPT !.currentRuleName = n], n, b)

\* Rule-extend (main.js:197-200)
CallExtend(bld, n, b) ==
  Builder_extend([bld EXCEPT !.currentRuleName = n], n, b)

RuleDefine(n, b) ==
  /\ pc = "Rule"
  /\ Size < MaxSize
  /\ last' = Op("Rule-define", "", n, b, 0)
  /\ prev' = last
  /\ RuleOutcome(CallDefine(builder, n, b))

RuleOverride(n, b) ==
  /\ pc = "Rule"
  /\ Size < MaxSize
  /\ last' = Op("Rule-override", "", n, b, 0)
  /\ prev' = last
  /\ RuleOutcome(CallOverride(builder, n, b))

RuleExtend(n, b) ==
  /\ pc = "Rule"
  /\ Size < MaxSize
  /\ last' = Op("Rule-extend", "", n, b, 0)
  /\ prev' = last
  /\ RuleOutcome(CallExtend(builder, n, b))

\* (variant: the built Grammar is also registered in optNamespace)
GrammarBuildInstalls ==
  /\ pc = "Rule"
  /\ heap' = Append(heap, Builder_build(builder, optNamespace))
  /\ batch' = Append(batch, Len(heap) + 1)
  /\ pc' = "Grammar"
  /\ last' = Op("build", "", builder.name, NoRule, Len(heap) + 1)
  /\ prev' = last
  /\ nsObjs' = IF optNamespace = 0 THEN nsObjs
               ELSE Namespace_install(nsObjs, optNamespace, builder.name,
                                      Len(heap) + 1)
  /\ UNCHANGED <<terms, namespaces, whatItIs, optNamespace, builder, error>>

\* (variant: Grammars built earlier whose super-grammar has the new Grammar's
\* name are linked to the new Grammar)
GrammarBuildRelinks ==
  /\ pc = "Rule"
  /\ heap' = Append(
       [g \in 1..Len(heap) |->
          IF /\ heap[g].superGrammar # 0
             /\ heap[heap[g].superGrammar].name = builder.name
          THEN [heap[g] EXCEPT !.superGrammar = Len(heap) + 1]
          ELSE heap[g]],
       Builder_build(builder, optNamespace))
  /\ batch' = Append(batch, Len(heap) + 1)
  /\ pc' = "Grammar"
  /\ last' = Op("build", "", builder.name, NoRule, Len(heap) + 1)
  /\ prev' = last
  /\ UNCHANGED <<terms, namespaces, nsObjs, whatItIs, optNamespace, builder,
                 error>>

\* Grammar, second half (main.js:211): the value of builder.build(optNamespace)
\* is the value of the Grammar action
GrammarBuild ==
  /\ pc = "Rule"
  /\ heap' = Append(heap, Builder_build(builder, optNamespace))
  /\ batch' = Append(batch, Len(heap) + 1)
  /\ pc' = "Grammar"
  /\ last' = Op("build", "", builder.name, NoRule, Len(heap) + 1)
  /\ prev' = last
  /\ UNCHANGED <<terms, namespaces, nsObjs, whatItIs, optNamespace, builder,
                 error>>

\* the thunk's value is returned (main.js:220): one Grammar, or the sequence
\* of the Grammars of the source (main.js:213)
Return ==
  /\ pc = "Grammar"
  /\ whatItIs = "Grammar" => Len(batch) = 1
  /\ CallEnds
  /\ last' = [Op("return", "", "", NoRule, 0) EXCEPT !.gs = batch]
  /\ UNCHANGED <<namespaces, nsObjs, heap, error>>

\* ---- a rule declaration, with the evaluation of its body (env.b) ----
\* what + makes of a rule name: an unset currentRuleName reads "undefined"
NameString(name) == IF name = "" THEN "undefined" ELSE name

\* Alt over Alt-rec (main.js:150-151): the alternatives nest to the right
RECURSIVE AltRec(_)
AltRec(ts) == IF Len(ts) = 1 THEN ts[1] ELSE Alt(ts[1], AltRec(Tail(ts)))

\* (variant: env.b is evaluated before currentRuleName is assigned)
RuleBeginLate(kind, n) ==
  /\ pc = "Rule"
  /\ Size < MaxSize
  /\ pc' = "Body"
  /\ terms' = <<>>
  /\ last' = Op(kind, "", n, NoRule, 0)
  /\ prev' = last
  /\ UNCHANGED <<namespaces, nsObjs, heap, whatItIs, optNamespace, builder,
                 batch, error>>

\* first statement of Rule-define, Rule-override and Rule-extend
\* (main.js:190, 194, 198); env.b is evaluated after it, by the second
RuleBegin(kind, n) ==
  /\ pc = "Rule"
  /\ Size < MaxSize
  /\ builder' = [builder EXCEPT !.currentRuleName = n]
  /\ pc' = "Body"
  /\ terms' = <<>>
  /\ last' = Op(kind, "", n, NoRule, 0)
  /\ prev' = last
  /\ UNCHANGED <<namespaces, nsObjs, heap, whatItIs, optNamespace, batch,
                 error>>

\* Term (main.js:153): the value of the term
Term(v) ==
  /\ pc = "Body"
  /\ Size < MaxSize
  /\ terms' = Append(terms, Prim(v))
  /\ UNCHANGED <<namespaces, nsObjs, heap, pc, whatItIs, optNamespace,
                 builder, batch, error, last, prev>>

\* Term-inline (main.js:154): label is env.n, the name written in the source
TermInline(label, v) ==
  /\ pc = "Body"
  /\ Size < MaxSize
  /\ terms' = Append(terms,
                     Builder_inline(
                       NameString(builder.currentRuleName) \o "-" \o label,
                       Prim(v)))
  /\ UNCHANGED <<namespaces, nsObjs, heap, pc, whatItIs, optNamespace,
                 builder, batch, error, last, prev>>

\* second statement of Rule-define, Rule-override and Rule-extend
\* (main.js:191, 195, 199), env.b being evaluated
RuleEnd ==
  /\ pc = "Body"
  /\ Len(terms) >= 1
  /\ LET b == AltRec(terms)
         r == CASE last.op = "Rule-define" -> CallDefine(builder, last.n, b)
                [] last.op = "Rule-override" ->
                     CallOverride(builder, last.n, b)
                [] OTHER -> CallExtend(builder, last.n, b) IN
       /\ builder' = r.bld
       /\ IF r.err = "none"
          THEN pc' = "Rule" /\ UNCHANGED error
          ELSE Throw(r.err)
       /\ last' = Op(last.op, "", last.n, b, 0)
  /\ terms' = <<>>
  /\ UNCHANGED <<namespaces, nsObjs, heap, whatItIs, optNamespace, batch,
                 prev>>

\* the loader over sources that declare rules, with a host that uses one
\* namespace name and one grammar name
Next ==
  \/ \E name \in RuleNsNames : NamespaceCall(name)
  \/ \E nsId \in 1..Len(nsObjs), g \in 1..Len(heap) : Install(nsId, g)
  \/ \E nsId \in 0..Len(nsObjs) : makeGrammar(nsId)
  \/ \E nsId \in 0..Len(nsObjs) : makeGrammars(nsId)
  \/ \E n \in RuleGNames : GrammarBegin(n)
  \/ SuperGrammarAbsent
  \/ \E ns \in RuleNsNames, n \in RuleGNames : SuperGrammarQualified(ns, n)
  \/ \E n \in RuleGNames : SuperGrammarUnqualified(n)
  \/ \E n \in RuleNames, b \in Bodies : RuleDefine(n, b)
  \/ \E n \in RuleNames, b \in Bodies : RuleOverride(n, b)
  \/ \E n \in RuleNames, b \in Bodies : RuleExtend(n, b)
  \/ GrammarBuild
  \/ Return
  \/ Unwind

Spec == Init /\ [][Next]_vars

\* the loader over sources whose grammars declare no rule, with every
\* namespace name and grammar name
NextNs ==
  \/ \E name \in NsNames : NamespaceCall(name)
  \/ \E nsId \in 1..Len(nsObjs), g \in 1..Len(heap) : Install(nsId, g)
  \/ \E nsId \in 0..Len(nsObjs) : makeGrammar(nsId)
  \/ \E nsId \in 0..Len(nsObjs) : makeGrammars(nsId)
  \/ \E n \in GNames : GrammarBegin(n)
  \/ SuperGrammarAbsent
  \/ \E ns \in NsNames, n \in GNames : SuperGrammarQualified(ns, n)
  \/ \E n \in GNames : SuperGrammarUnqualified(n)
  \/ GrammarBuild
  \/ Return
  \/ Unwind
  \/ \E what \in {"Grammar", "Grammars"}, nsId \in 0..Len(nsObjs) :
       compileAndLoadInvalid(what, nsId)

SpecNs == Init /\ [][NextNs]_vars

\* the loader over sources whose rule bodies are evaluated term by term, with
\* a host that uses one namespace name and one grammar name and compiles
\* its sources with makeGrammars
NextInline ==
  \/ \E name \in RuleNsNames : NamespaceCall(name)
  \/ \E nsId \in 1..Len(nsObjs), g \in 1..Len(heap) : Install(nsId, g)
  \/ \E nsId \in 0..Len(nsObjs) : makeGrammars(nsId)
  \/ \E n \in RuleGNames : GrammarBegin(n)
  \/ SuperGrammarAbsent
  \/ \E n \in RuleGNames : SuperGrammarUnqualified(n)
  \/ \E kind \in RuleOps, n \in RuleNames : RuleBegin(kind, n)
  \/ \E v \in InlinePrims : Term(v)
  \/ \E label \in InlineLabels, v \in InlinePrims : TermInline(label, v)
  \/ RuleEnd
  \/ GrammarBuild
  \/ Return
  \/ Unwind

SpecInline == Init /\ [][NextInline]_vars

\* ---- vocabulary of the properties ----
\* the Grammars of the super-grammar chain that starts at g
RECURSIVE Ancestors(_)
Ancestors(g) == IF g = 0 THEN {} ELSE {g} \cup Ancestors(heap[g].superGrammar)

\* rule n is in the local rule set of bld or in a Grammar of its chain
Found(bld, n) ==
  \/ bld.ruleSet[n] # NoRule
  \/ \E g \in Ancestors(bld.superGrammar) : heap[g].rules[n] # NoRule

\* the body rule n has for bld: the local one, else that of the nearest
\* ancestor that defines n (a super-grammar is built before its child)
Existing(bld, n) ==
  IF bld.ruleSet[n] # NoRule THEN bld.ruleSet[n]
  ELSE LET D == {g \in Ancestors(bld.superGrammar) : heap[g].rules[n] # NoRule}
       IN heap[CHOOSE g \in D : \A h \in D : h <= g].rules[n]

\* no Namespace has a grammar registered, replaced or removed by the step
RegistryUnchanged ==
  /\ Len(nsObjs') >= Len(nsObjs)
  /\ \A i \in 1..Len(nsObjs') :
       nsObjs'[i].grammars =
         IF i <= Len(nsObjs) THEN nsObjs[i].grammars ELSE EmptyGrammars

\* the step is the semantic action op
Runs(op) == pc = "Rule" /\ last'.op = op

\* ---- C1 ----
\* C1: namespace(name) is get-or-create: the first call creates a Namespace
\* for the name, every later call returns that same instance, different
\* names have different instances, and an entry once created is never
\* replaced or removed.
C1_Returned ==
  last.op = "namespace" =>
    /\ last.val # 0
    /\ last.val = namespaces[last.ns]
    /\ nsObjs[last.val].name = last.ns

C1_Distinct ==
  \A a \in NsNames, b \in NsNames :
    (a # b /\ namespaces[a] # 0 /\ namespaces[b] # 0)
      => namespaces[a] # namespaces[b]

C1_Kept ==
  \A a \in NsNames :
    namespaces[a] # 0 =>
      /\ namespaces'[a] = namespaces[a]
      /\ nsObjs'[namespaces[a]].name = a

C2_DefineStep ==
  Runs("Rule-define") =>
    /\ error' = IF builder.ruleSet[last'.n] # NoRule
                THEN "DuplicateRuleError" ELSE "none"
    /\ error' # "none" => builder'.ruleSet = builder.ruleSet
    /\ error' # "none" => pc' = "throw"

C2_DuplicateRule == [][C2_DefineStep]_vars

\* define s has failed in a child whose ancestor defines s too: the child's
\* own first declaration of s had gone through
C2_Witness ==
  /\ pc = "throw"
  /\ error = "DuplicateRuleError"
  /\ last.op = "Rule-define"
  /\ prev.op = "Rule-define"
  /\ prev.n = last.n
  /\ builder.superGrammar # 0
  /\ heap[builder.superGrammar].rules[last.n] # NoRule

\* ---- C3 ----
\* C3: an override or extend of rule R fails with UndefinedRuleError exactly
\* when R is neither in the local rule set nor in any grammar of the
\* super-grammar chain; found anywhere in that walk, the operation succeeds.
C3_Step ==
  (Runs("Rule-override") \/ Runs("Rule-extend")) =>
    /\ error' = IF Found(builder, last'.n) THEN "none" ELSE "UndefinedRuleError"
    /\ Found(builder, last'.n) =>
         (pc' = "Rule" /\ builder'.ruleSet[last'.n] # NoRule)
    /\ ~Found(builder, last'.n) => pc' = "throw"

C3_UndefinedRule == [][C3_Step]_vars

\* an override has succeeded on a rule that only the super-grammar of the
\* super-grammar defines
C3_Witness ==
  /\ pc = "Rule"
  /\ last.op = "Rule-override"
  /\ prev.op \in {"SuperGrammar-unqualified", "SuperGrammar-qualified"}
  /\ builder.ruleSet[last.n] = last.b
  /\ builder.superGrammar # 0
  /\ heap[builder.superGrammar].rules[last.n] = NoRule
  /\ heap[builder.superGrammar].superGrammar # 0
  /\ heap[heap[builder.superGrammar].superGrammar].rules[last.n] # NoRule

\* ---- C4 ----
\* C4: after define(R, X) succeeds the rule bound to R in the grammar under
\* construction has body exactly X and every other local rule is unchanged.
C4_DefineStep ==
  (Runs("Rule-define") /\ error' = "none") =>
    /\ builder'.ruleSet[last'.n] = last'.b
    /\ \A r \in RuleNames \ {last'.n} : builder'.ruleSet[r] = builder.ruleSet[r]

C4_DefineBinds == [][C4_DefineStep]_vars

\* define has bound a rule next to another local rule
C4_Witness ==
  /\ pc = "Rule"
  /\ last.op = "Rule-define"
  /\ builder.ruleSet[last.n] = last.b
  /\ \E r \in RuleNames \ {last.n} : builder.ruleSet[r] # NoRule

\* ---- C5 ----
\* C5: override is last-writer-wins: after override(R, b1) then
\* override(R, b2) in the same grammar, R is bound to exactly b2.
C5_OverrideLastWins ==
  (/\ pc = "Rule"
   /\ last.op = "Rule-override"
   /\ prev.op = "Rule-override"
   /\ prev.n = last.n)
  => builder.ruleSet[last.n] = last.b

\* two overrides of one rule with different bodies have run
C5_Witness ==
  /\ pc = "Rule"
  /\ last.op = "Rule-override"
  /\ prev.op = "Rule-override"
  /\ prev.n = last.n
  /\ prev.b # last.b
  /\ builder.ruleSet[last.n] = last.b

\* ---- C6 ----
\* C6: extend appends in order: each extend(R, b) binds R to
\* Alt(existing body, b), so extend(R, b1) then extend(R, b2) over body B
\* leaves the left-nested Alt(Alt(B, b1), b2), tried in the order B, b1, b2.
C6_ExtendStep ==
  (Runs("Rule-extend") /\ error' = "none") =>
    builder'.ruleSet[last'.n] = Alt(Existing(builder, last'.n), last'.b)

C6_TwoExtends ==
  (/\ pc = "Rule"
   /\ last.op = "Rule-extend"
   /\ prev.op = "Rule-extend"
   /\ prev.n = last.n)
  => LET body == builder.ruleSet[last.n] IN
       /\ body # NoRule
       /\ body[1] = "Alt"
       /\ body[3] = last.b
       /\ body[2][1] = "Alt"
       /\ body[2][3] = prev.b
       /\ AltOrder(body) = AltOrder(body[2][2]) \o <<prev.b, last.b>>

C6_ExtendAppends == []C6_TwoExtends /\ [][C6_ExtendStep]_vars

\* r = a, extended by b and then by a
C6_Witness ==
  /\ pc = "Rule"
  /\ last.op = "Rule-extend"
  /\ prev.op = "Rule-extend"
  /\ prev.n = "r"
  /\ last.n = "r"
  /\ builder.ruleSet["r"] = Alt(Alt(Prim("a"), Prim("b")), Prim("a"))
  /\ AltOrder(builder.ruleSet["r"]) = <<Prim("a"), Prim("b"), Prim("a")>>

\* ---- C7 ----
\* C7: an override or extend of R in a child grammar changes the child's rule
\* set only: resolving R through the built child gives the child's body, and
\* no built Grammar (the super-grammar, any ancestor) ever changes, so R
\* resolved through the super-grammar is what it was.
C7_Frame ==
  /\ Len(heap') >= Len(heap)
  /\ \A g \in 1..Len(heap) :
       /\ heap'[g] = heap[g]
       /\ \A n \in RuleNames : Resolve(g, n)' = Resolve(g, n)

C7_ChildResolves ==
  (/\ pc = "Grammar"
   /\ last.op = "build"
   /\ prev.op \in {"Rule-override", "Rule-extend"})
  => LET body == Resolve(last.val, prev.n) IN
       /\ body # NoRule
       /\ prev.op = "Rule-override" => body = prev.b
       /\ prev.op = "Rule-extend" => (body[1] = "Alt" /\ body[3] = prev.b)

C7_ChildOnly == []C7_ChildResolves /\ [][C7_Frame]_vars

\* a child built after overriding a rule of its super-grammar with another
\* body: the two grammars resolve the rule differently
C7_Witness ==
  /\ pc = "Grammar"
  /\ last.op = "build"
  /\ prev.op = "Rule-override"
  /\ heap[last.val].superGrammar # 0
  /\ Resolve(heap[last.val].superGrammar, prev.n) # NoRule
  /\ Resolve(heap[last.val].superGrammar, prev.n) # prev.b
  /\ Resolve(last.val, prev.n) = prev.b

\* ---- C8 ----
\* C8: in makeGrammars(source, namespace), an unqualified super-grammar
\* reference from a grammar to one declared before it in the same source
\* resolves: the earlier grammar is found in the namespace and becomes the
\* super-grammar.
C8_BatchSuperResolves ==
  (/\ pc \in {"Rule", "throw"}
   /\ whatItIs = "Grammars"
   /\ optNamespace # 0
   /\ last.op = "SuperGrammar-unqualified"
   /\ \E j \in 1..Len(batch) : heap[batch[j]].name = last.n)
  => /\ error = "none"
     /\ \E j \in 1..Len(batch) :
          heap[batch[j]].name = last.n /\ builder.superGrammar = batch[j]

\* ---- C9 ----
\* C9: build(namespace) does not register the built Grammar: no step of the
\* loader, build included, changes the grammars registered in a Namespace;
\* only a registration by the host does.
C9_LoaderStep == pc # "idle" => RegistryUnchanged

C9_BuildDoesNotRegister == [][C9_LoaderStep]_vars

\* a Grammar has just been built with a namespace at hand, and the namespace
\* does not hold it
C9_Witness ==
  /\ pc = "Grammar"
  /\ last.op = "build"
  /\ optNamespace # 0
  /\ nsObjs[optNamespace].grammars[heap[last.val].name] # last.val

\* ---- C10 ----
\* C10: a DuplicateRuleError, UndefinedRuleError or UnknownGrammarError raised
\* while a grammar is compiled ends the compilation there: the next step
\* hands the exception to the caller, no further declaration is applied, no
\* Grammar is built, returned or registered.
C10_Raised ==
  error # "none" =>
    /\ pc = "throw"
    /\ error \in {"DuplicateRuleError", "UndefinedRuleError",
                  "UnknownGrammarError", "TypeError"}

C10_Step ==
  /\ (error = "none" /\ error' # "none") =>
       (pc' = "throw" /\ heap' = heap /\ RegistryUnchanged)
  /\ pc = "throw" =>
       /\ pc' = "idle"
       /\ heap' = heap
       /\ RegistryUnchanged
       /\ last' = Op("throw", "", error, NoRule, 0)

C10_ErrorAborts == []C10_Raised /\ [][C10_Step]_vars

\* a rule declaration has raised DuplicateRuleError in the second grammar of
\* a source
C10_Witness ==
  /\ pc = "throw"
  /\ error = "DuplicateRuleError"
  /\ Len(batch) = 1
  /\ builder.name = "G"

\* ---- C11 ----
\* C11: makeGrammar and makeGrammars on a source that does not conform to the
\* grammar syntax fail with MalformedSourceError: no Grammar is returned, no
\* Builder is created, and neither the namespace registry nor any Namespace
\* changes.
C11_Step ==
  /\ (pc = "idle" /\ last'.op = "invalid input") =>
       /\ pc' = "throw"
       /\ error' = "MalformedSourceError"
       /\ builder' = NoBuilder
       /\ UNCHANGED <<namespaces, nsObjs, heap>>
  /\ (pc = "throw" /\ error = "MalformedSourceError") =>
       /\ pc' = "idle"
       /\ last'.op = "throw"
       /\ last'.gs = <<>>
       /\ UNCHANGED <<namespaces, nsObjs, heap>>

C11_NothingMade ==
  error = "MalformedSourceError" =>
    (pc = "throw" /\ ~builder.made /\ batch = <<>>)

C11_MalformedSource == []C11_NothingMade /\ [][C11_Step]_vars

\* makeGrammars has rejected a source, with a namespace supplied
C11_Witness ==
  /\ pc = "throw"
  /\ error = "MalformedSourceError"
  /\ last.op = "invalid input"
  /\ whatItIs = "Grammars"
  /\ optNamespace # 0

\* ---- C12 ----
\* C12: every super-grammar lookup miss fails with UnknownGrammarError: a
\* qualified reference to a missing namespace or grammar, and an unqualified
\* reference to a grammar missing from the ambient namespace, also when the
\* caller supplied no namespace.
C12_LookupMiss ==
  (/\ pc = "throw"
   /\ last.op \in {"SuperGrammar-qualified", "SuperGrammar-unqualified"})
  => error = "UnknownGrammarError"

\* ---- C13 ----
\* C13: for each grammar declaration the loader calls the Builder in a fixed
\* order: a new Builder, setName, setSuperGrammar at most once, the rule
\* declarations, then build once as the last call; no rule declaration comes
\* before the super-grammar or after build.
C13_CallOrder ==
  pc # "idle" =>
    /\ last.op = "Grammar" =>
         /\ prev.op \in {"makeGrammar", "makeGrammars", "build"}
         /\ builder.made
         /\ builder.name = last.n
         /\ builder.superGrammar = 0
         /\ builder.ruleSet = EmptyRuleSet
    /\ last.op \in SuperOps => prev.op = "Grammar"
    /\ last.op \in RuleOps => prev.op \in SuperOps \cup RuleOps
    /\ last.op = "build" =>
         /\ prev.op \in SuperOps \cup RuleOps
         /\ builder.id = Len(batch)
         /\ heap[last.val].name = builder.name

\* a grammar with a super-grammar and a rule declaration has been built
C13_Witness ==
  /\ pc = "Grammar"
  /\ last.op = "build"
  /\ prev.op \in RuleOps
  /\ builder.superGrammar # 0
  /\ builder.ruleSet # EmptyRuleSet

\* ---- C17 ----
\* C17: a grammar's super-grammar reference is resolved once, while the
\* grammar is compiled, and the link never changes afterwards: the Builder's
\* super-grammar is the Grammar the lookup returned, build stores it, and no
\* later registration, lookup or compilation changes the superGrammar of a
\* built Grammar.
C17_Step ==
  /\ \A g \in 1..Len(heap) :
       /\ g <= Len(heap')
       /\ heap'[g].superGrammar = heap[g].superGrammar
  /\ (pc = "SuperGrammar" /\ pc' = "Rule") =>
       builder'.superGrammar = last'.val
  /\ (pc = "Rule" /\ pc' = "Rule") =>
       builder'.superGrammar = builder.superGrammar
  /\ (pc = "Rule" /\ pc' = "Grammar") =>
       heap'[last'.val].superGrammar = builder.superGrammar

C17_LinkFixed == [][C17_Step]_vars

\* a built Grammar is linked to a super-grammar while a namespace holds
\* another Grammar under the super-grammar's name
C17_Witness ==
  \E g \in 1..Len(heap), nsId \in 1..Len(nsObjs) :
    LET s == heap[g].superGrammar IN
      /\ s # 0
      /\ Namespace_getGrammar(nsObjs, nsId, heap[s].name) \notin {0, s}
      /\ \E h \in 1..Len(heap) : h > g /\ heap[h].superGrammar # 0

\* ---- C19 ----
\* C19: a qualified super-grammar reference ns.G goes through the
\* get-or-create registry: when the registry has no namespace ns, the step
\* adds a new empty namespace ns and then fails on the grammar lookup, so a
\* failed compilation can leave one more namespace in the registry; no step
\* of a compilation removes or replaces a registry entry.
C19_Step ==
  /\ (/\ pc = "SuperGrammar"
      /\ last'.op = "SuperGrammar-qualified"
      /\ namespaces[last'.ns] = 0) =>
       /\ Len(nsObjs') = Len(nsObjs) + 1
       /\ namespaces'[last'.ns] = Len(nsObjs')
       /\ nsObjs'[Len(nsObjs')] = NewNamespace(last'.ns)
       /\ pc' = "throw"
       /\ error' = "UnknownGrammarError"
  /\ (pc # "idle" \/ pc' # "idle") =>
       /\ \A a \in NsNames :
            namespaces[a] # 0 => namespaces'[a] = namespaces[a]
       /\ \A i \in 1..Len(nsObjs) :
            i <= Len(nsObjs') /\ nsObjs'[i] = nsObjs[i]

C20_BatchBuilt ==
  (pc = "throw" /\ whatItIs = "Grammars") =>
    /\ Len(batch) <= Len(heap)
    /\ \A i \in 1..Len(batch) : batch[i] = Len(heap) - Len(batch) + i
    /\ builder.made => builder.id = Len(batch) + 1

C20_Step ==
  (pc = "throw" /\ whatItIs = "Grammars") =>
    /\ pc' = "idle"
    /\ last'.op = "throw"
    /\ last'.gs = <<>>
    /\ Len(heap') = Len(heap)
    /\ \A i \in 1..Len(batch) : heap'[batch[i]] = heap[batch[i]]
    /\ UNCHANGED <<namespaces, nsObjs>>

C20_NotAtomic == []C20_BatchBuilt /\ [][C20_Step]_vars

\* the third grammar of a source has failed on its super-grammar after two
\* grammars of the source were built
C20_Witness ==
  /\ pc = "throw"
  /\ whatItIs = "Grammars"
  /\ error = "UnknownGrammarError"
  /\ Len(batch) = 2
  /\ builder.id = 3

\* ---- C14 ----
\* C14: in a batch compiled by makeGrammars every grammar declaration has a
\* Builder of its own: the calls made for the k-th grammar go to the k-th
\* Builder made by the call, and a Builder is written by no step after its
\* build has returned.
C14_OwnBuilder ==
  pc \in {"SuperGrammar", "Rule", "Body"} =>
    /\ builder.made
    /\ builder.id = Len(batch) + 1

C14_Step ==
  builder' # builder =>
    \/ /\ builder'.id = builder.id
       /\ pc \in {"SuperGrammar", "Rule", "Body"}
    \/ /\ pc = "Grammar"
       /\ builder'.id = builder.id + 1
       /\ builder' = Builder_setName([NewBuilder EXCEPT !.id = builder'.id],
                                     last'.n)
    \/ pc' = "idle"

C14_FreshBuilder == []C14_OwnBuilder /\ [][C14_Step]_vars

\* an inline rule is compiled for the second grammar of a batch whose first
\* grammar has rules
C14_Witness ==
  /\ whatItIs = "Grammars"
  /\ pc = "Body"
  /\ Len(batch) = 1
  /\ heap[batch[1]].rules # EmptyRuleSet
  /\ builder.id = 2
  /\ builder.superGrammar # 0
  /\ \E i \in 1..Len(terms) : terms[i][1] = "Inline"

\* ---- C15 ----
\* C15: within one enclosing rule no two inline rules receive the same
\* synthesized name.
C15_InlineNamesDistinct ==
  \A i \in 1..Len(terms), j \in 1..Len(terms) :
    (i # j /\ terms[i][1] = "Inline" /\ terms[j][1] = "Inline")
      => terms[i][2] # terms[j][2]

\* ---- C16 ----
\* C16: currentRuleName is set to a rule's name before any part of the rule's
\* body is compiled: every inline rule synthesized in the body of rule R is
\* named from currentRuleName = R, never from the name of a rule compiled
\* before and never from an unset value.
C16_InBody ==
  pc = "Body" =>
    /\ last.op \in RuleOps
    /\ builder.currentRuleName = last.n
    /\ \A i \in 1..Len(terms) :
         terms[i][1] = "Inline" =>
           \E label \in InlineLabels : terms[i][2] = last.n \o "-" \o label

C16_Step ==
  /\ (pc = "Rule" /\ pc' = "Body") =>
       /\ builder'.currentRuleName = last'.n
       /\ terms' = <<>>
  /\ (pc = "Body" /\ pc' = "Body") =>
       /\ builder' = builder
       /\ last' = last

C16_NameSetFirst == []C16_InBody /\ [][C16_Step]_vars

\* an inline rule of s is compiled in a grammar whose rule r, compiled
\* before, has an inline rule too
C16_Witness ==
  /\ pc = "Body"
  /\ last.n = "s"
  /\ builder.ruleSet["r"] # NoRule
  /\ AltOrder(builder.ruleSet["r"])[1][1] = "Inline"
  /\ Len(terms) = 1
  /\ terms[1] = Builder_inline("s-x", Prim("a"))
====
